---- MODULE Spec2Model ----
(***************************************************************************)
(* Open Telco leaderboard submissions: the review lifecycle of a           *)
(* submission in the transit repository (validation, maintainer review,    *)
(* sync to the permanent store, disposition of the transit artifact).      *)
(*                                                                         *)
(* The lifecycle edges, the validation checks and the labels are those of  *)
(* the transit repository's README.  The transition guard, the Sync Client *)
(* with its idempotency ledger and the Disposition Handler follow the      *)
(* design document, sections 4.5 to 4.7.                                   *)
(***************************************************************************)
EXTENDS Integers, Sequences, FiniteSets, TLC

\* ------------------------------------------------------------------ bounds
\* Revised bundles a submitter pushes to one pull request.
MaxRevisions == 1
\* Samples in the canonical set of a benchmark.
CanonSize == 2
\* Transient failures after which the sync of a case is no longer retried.
MaxAttempts == 2

\* Two pull requests under review, two concurrent invocations of the sync.
Cases == {1, 2}
Runs == {1, 2}

\* ------------------------------------------------------- submission bundles
Benchmarks == {"teleqna", "telelogs", "telemath", "3gpp_tsg"}

\* The canonical sample ids of a benchmark (GSMA/open_telco dataset).
CanonicalIds(bm) == 1..CanonSize

FullRun == [i \in 1..CanonSize |-> i]
LimitedRun == [i \in 1..(CanonSize - 1) |-> i]
RepeatedRun == FullRun \o <<1>>

GoodBundle ==
  [columns |-> TRUE, provider |-> TRUE, json |-> TRUE, signature |-> TRUE,
   errors |-> FALSE, scores |-> "s1", date |-> "2025-01-01",
   ids |-> [bm \in Benchmarks |-> FullRun]]

\* The bundles a submitter can push: a complete one, the same model
\* resubmitted later with revised scores, and bundles failing one or several
\* of the validation checks.
BundleTable ==
  [good      |-> GoodBundle,
   rescored  |-> [GoodBundle EXCEPT !.scores = "s2", !.date = "2025-02-01"],
   nocolumn  |-> [GoodBundle EXCEPT !.columns = FALSE],
   unsigned  |-> [GoodBundle EXCEPT !.signature = FALSE],
   limited   |-> [GoodBundle EXCEPT !.ids["teleqna"] = LimitedRun],
   messy     |-> [GoodBundle EXCEPT !.provider = FALSE, !.errors = TRUE,
                                    !.ids["telelogs"] = RepeatedRun]]

Bundles == DOMAIN BundleTable

\* ------------------------------------------------------------- validation
Range(s) == {s[i] : i \in DOMAIN s}

\* Mutant: the number of sample ids is compared with the expected count.
SampleCountFailuresByCount(ids, canonical) ==
  IF Len(ids) < Cardinality(canonical) THEN {"incomplete benchmark coverage"}
  ELSE IF Len(ids) > Cardinality(canonical) THEN {"duplicate sample evaluation"}
  ELSE {}

\* Sample count verification of one benchmark: the reasons it fails for.
SampleCountFailures(ids, canonical) ==
  (IF canonical \ Range(ids) # {} THEN {"incomplete benchmark coverage"} ELSE {})
  \cup (IF Cardinality(Range(ids)) # Len(ids)
        THEN {"duplicate sample evaluation"} ELSE {})
  \cup (IF Range(ids) \ canonical # {} THEN {"unknown sample id"} ELSE {})

SampleCountVerifier(b) ==
  UNION {SampleCountFailures(b.ids[bm], CanonicalIds(bm)) : bm \in Benchmarks}

\* Parquet schema (required columns) and model/provider format.
SchemaValidator(b) ==
  (IF b.columns THEN {} ELSE {"missing required column"})
  \cup (IF b.provider THEN {} ELSE {"unrecognized model/provider format"})

\* JSON trajectory format, Inspect evaluation signature, no errors in the logs.
TrajectoryValidator(b) ==
  (IF b.json THEN {} ELSE {"trajectory is not valid JSON"})
  \cup (IF b.signature THEN {} ELSE {"missing Inspect evaluation signature"})
  \cup (IF b.errors THEN {"errors in trajectory logs"} ELSE {})

\* Mutant: the sample count verification is left out of the verdict.
EvaluateNoSamples(b) ==
  LET checks == [schema |-> SchemaValidator(b),
                 trajectory |-> TrajectoryValidator(b),
                 samples |-> SampleCountVerifier(b)]
  IN  [checks |-> checks,
       overall |-> checks.schema = {} /\ checks.trajectory = {}]

\* Mutant: the validation stops at the first validator that fails.
EvaluateFailFast(b) ==
  LET schema == SchemaValidator(b)
      trajectory == IF schema = {} THEN TrajectoryValidator(b) ELSE {}
      samples == IF schema = {} /\ trajectory = {}
                 THEN SampleCountVerifier(b) ELSE {}
  IN  [checks |-> [schema |-> schema, trajectory |-> trajectory,
                   samples |-> samples],
       overall |-> schema = {} /\ trajectory = {} /\ samples = {}]

\* The verdict of the automated validation of one bundle.
Evaluate(b) ==
  LET checks == [schema |-> SchemaValidator(b),
                 trajectory |-> TrajectoryValidator(b),
                 samples |-> SampleCountVerifier(b)]
  IN  [checks |-> checks,
       overall |-> \A k \in DOMAIN checks : checks[k] = {}]

\* ------------------------------------------------------------------ state
States == {"Created", "Validating", "ReadyForReview", "NeedsWork",
           "Approved", "Rejected", "Synced", "Closed"}

VARIABLES
  state,            \* case -> lifecycle state
  history,          \* case -> sequence of [from, to, actor]
  labels,           \* case -> labels on the pull request
  reviewRequested,  \* case -> a maintainer was asked to review
  bundle,           \* case -> the bundle last pushed
  verdict,          \* case -> {} or {latest ValidationVerdict}
  artifact,         \* case -> the transit artifact still exists
  notified,         \* case -> rejection notification emitted
  confirmed,        \* case -> the Sync Client confirmed persistence
  ledger,           \* idempotency ledger: content hashes with a SyncRecord
  store,            \* permanent store: sequence of [hash, case]
  run,              \* sync invocation -> [pc, case, hash]
  reconcile,        \* content hashes escalated to manual reconciliation
  failures,         \* case -> transient failures of its sync so far
  outcome,          \* what the last operation was and how it ended
  attempt,          \* a transition request between its read and its write
  probe,            \* a function run on its own: the input
  report,           \* a function run on its own: the result
  csv,              \* the leaderboard file the site serves
  page,             \* component -> its load state: loading, data, error
  ui                \* Models page: search, sort key, providers, shown list

caseVars == <<state, history, labels, reviewRequested>>
syncVars == <<confirmed, ledger, store, run, reconcile, failures>>
webVars == <<csv, page, ui>>
auxVars == <<attempt, probe, report, webVars>>
vars == <<state, history, labels, reviewRequested, bundle, verdict,
          artifact, notified, confirmed, ledger, store, run, reconcile,
          failures, outcome, attempt, probe, report, csv, page, ui>>

IdleRun == [pc |-> "idle", case |-> 0, hash |-> <<>>]

NoOutcome == [case |-> 0, op |-> "none", from |-> "none", to |-> "none",
              result |-> "none", error |-> "none"]

\* No transition request is between its read and its write.
NoAttempt == [case |-> 0, op |-> "none", seen |-> "none", bundle |-> "none",
              step |-> 0]

\* No sample count verification was asked for on its own.
NoProbe == [benchmark |-> "none", ids |-> <<>>, n_samples |-> 0]
NoReport == {"none"}

\* No page of the site is open.
NoPage == "none"

Init ==
  /\ state = [c \in Cases |-> "Created"]
  /\ history = [c \in Cases |-> <<>>]
  /\ labels = [c \in Cases |-> {}]
  /\ reviewRequested = [c \in Cases |-> FALSE]
  /\ bundle \in [Cases -> Bundles]
  /\ verdict = [c \in Cases |-> {}]
  /\ artifact = [c \in Cases |-> TRUE]
  /\ notified = [c \in Cases |-> FALSE]
  /\ confirmed = [c \in Cases |-> FALSE]
  /\ ledger = {}
  /\ store = <<>>
  /\ run = [r \in Runs |-> IdleRun]
  /\ reconcile = {}
  /\ failures = [c \in Cases |-> 0]
  /\ outcome = NoOutcome
  /\ attempt = NoAttempt
  /\ probe = NoProbe
  /\ report = NoReport
  /\ csv = <<>>
  /\ page = NoPage
  /\ ui = NoPage

\* ------------------------------------------------------------ state machine
\* A created pull request is validated.
IngestEdges == {<<"Created", "Validating">>}

\* Mutant: a validation run that finishes late is applied to a case the
\* maintainer has approved.
ValidationEdgesLate ==
  {<<"Validating", "ReadyForReview">>, <<"Validating", "NeedsWork">>,
   <<"Approved", "ReadyForReview">>, <<"Approved", "NeedsWork">>}

\* Validation: PASS -> ready-for-review, FAIL -> needs-work.
ValidationEdges ==
  {<<"Validating", "ReadyForReview">>, <<"Validating", "NeedsWork">>}

\* Mutant: a push to a rejected or closed pull request runs validation again.
RevisionEdgesReopen ==
  {<<"NeedsWork", "Validating">>, <<"Rejected", "Validating">>,
   <<"Closed", "Validating">>}

\* The submitter can push fixes, which runs validation again.
RevisionEdges == {<<"NeedsWork", "Validating">>}

\* Mutant: an approval is taken while validation is still running.
ReviewEdgesHasty ==
  {<<"ReadyForReview", "Approved">>, <<"ReadyForReview", "NeedsWork">>,
   <<"ReadyForReview", "Rejected">>, <<"Validating", "Approved">>}

\* Mutant: the review knows approval and rejection only.
ReviewEdgesNoChanges ==
  {<<"ReadyForReview", "Approved">>, <<"ReadyForReview", "Rejected">>}

\* Maintainer review: approved, changes requested, rejected.
ReviewEdges ==
  {<<"ReadyForReview", "Approved">>, <<"ReadyForReview", "NeedsWork">>,
   <<"ReadyForReview", "Rejected">>}

\* After the decision: sync and close, or close.
DispositionEdges ==
  {<<"Approved", "Synced">>, <<"Rejected", "Closed">>}

LabelFor(to) ==
  CASE to = "ReadyForReview" -> {"ready-for-review"}
    [] to = "NeedsWork" -> {"needs-work"}
    [] to = "Synced" -> {"synced-to-hf"}
    [] to = "Closed" -> {"rejected"}
    [] OTHER -> {}

\* The transition guard: the edge from the current state must be one the
\* operation may take.
CanMove(c, to, edges) == <<state[c], to>> \in edges

\* The successful transition of case c: the state field, one history entry,
\* the label and the review request.
Moved(c, op, to, actor) ==
  /\ state' = [state EXCEPT ![c] = to]
  /\ history' = [history EXCEPT
                   ![c] = Append(@, [from |-> state[c], to |-> to, actor |-> actor])]
  /\ labels' = [labels EXCEPT ![c] = @ \cup LabelFor(to)]
  /\ reviewRequested' =
       [reviewRequested EXCEPT ![c] = @ \/ to = "ReadyForReview"]
  /\ outcome' = [case |-> c, op |-> op, from |-> state[c], to |-> to,
                 result |-> "moved", error |-> "none"]

\* The operation on case c is aborted with an error; nothing else changes.
Aborted(c, op, to, error) ==
  /\ outcome' = [case |-> c, op |-> op, from |-> state[c], to |-> to,
                 result |-> "aborted", error |-> error]
  /\ UNCHANGED <<state, history, labels, reviewRequested, bundle,
                 verdict, artifact, notified, confirmed, ledger, store, run,
                 reconcile, failures>>

Pushes(c) ==
  Cardinality({i \in DOMAIN history[c] : history[c][i].from = "NeedsWork"})

\* ------------------------------------------------ validation and the review
\* A pull request is created: validation starts.
Ingest(c) ==
  /\ CanMove(c, "Validating", IngestEdges)
  /\ Moved(c, "ingest", "Validating", "automation")
  /\ UNCHANGED <<bundle, verdict, artifact, notified, syncVars>>

\* Mutant: the push opens the record of the case anew; what happened before
\* the push is gone from the history.
PushRevisionAnew(c, b) ==
  /\ CanMove(c, "Validating", RevisionEdges)
  /\ Pushes(c) < MaxRevisions
  /\ state' = [state EXCEPT ![c] = "Validating"]
  /\ history' = [history EXCEPT ![c] = <<[from |-> state[c], to |-> "Validating",
                                          actor |-> "automation"]>>]
  /\ outcome' = [case |-> c, op |-> "push", from |-> state[c],
                 to |-> "Validating", result |-> "moved", error |-> "none"]
  /\ bundle' = [bundle EXCEPT ![c] = b]
  /\ UNCHANGED <<labels, reviewRequested, verdict, artifact, notified, syncVars>>

\* The submitter pushes a revised bundle b: validation runs again.
PushRevision(c, b) ==
  /\ CanMove(c, "Validating", RevisionEdges)
  /\ Pushes(c) < MaxRevisions
  /\ Moved(c, "push", "Validating", "automation")
  /\ bundle' = [bundle EXCEPT ![c] = b]
  /\ UNCHANGED <<verdict, artifact, notified, syncVars>>

\* Where a finished validation sends the case.
VerdictTarget(v) == IF v.overall THEN "ReadyForReview" ELSE "NeedsWork"

\* Mutant: the verdict is written to a table that is not keyed by case.
ApplyVerdictShared(c, v) ==
  /\ CanMove(c, VerdictTarget(v), ValidationEdges)
  /\ Moved(c, "validate", VerdictTarget(v), "automation")
  /\ verdict' = [d \in Cases |-> {v}]
  /\ UNCHANGED <<bundle, artifact, notified, syncVars>>

\* A finished validation hands its verdict v to the case.
ApplyVerdict(c, v) ==
  /\ CanMove(c, VerdictTarget(v), ValidationEdges)
  /\ Moved(c, "validate", VerdictTarget(v), "automation")
  /\ verdict' = [verdict EXCEPT ![c] = {v}]
  /\ UNCHANGED <<bundle, artifact, notified, syncVars>>

\* The automated validation of the bundle of case c finishes.
CompleteValidation(c) == ApplyVerdict(c, Evaluate(BundleTable[bundle[c]]))

\* The maintainer's decision d on case c.
DecisionTarget(d) ==
  CASE d = "approve" -> "Approved"
    [] d = "request_changes" -> "NeedsWork"
    [] d = "reject" -> "Rejected"

Decisions == {"approve", "request_changes", "reject"}

Review(c, d) ==
  /\ CanMove(c, DecisionTarget(d), ReviewEdges)
  /\ Moved(c, d, DecisionTarget(d), "reviewer")
  /\ UNCHANGED <<bundle, verdict, artifact, notified, syncVars>>

\* ------------------------------------------------------------- Sync Client
\* Content hash over the canonical serialized form: scores, model identifier
\* and date (the trajectories are not part of it).
ModelIdentifier == "model (Provider)"

\* All cases are submissions of one model; the date is the one in the model
\* card of the bundle.
SubmittedAt(c) == BundleTable[bundle[c]].date

\* Mutant: the submission is keyed by the model alone, a resubmission is an
\* update of the model's entry.
ContentHashByModel(c) == <<ModelIdentifier>>

ContentHash(c) ==
  <<BundleTable[bundle[c]].scores, ModelIdentifier, SubmittedAt(c)>>

Records(st, h) == {i \in DOMAIN st : st[i].hash = h}

\* Mutant: the store appends without looking for the hash.
AppendBlind(st, h, rec) == [store |-> Append(st, rec), result |-> "written"]

\* Mutant: the store reports a write it did not make.
AppendLost(st, h, rec) ==
  IF Records(st, h) # {}
  THEN [store |-> st, result |-> "already_present"]
  ELSE [store |-> st, result |-> "written"]

\* The permanent store's write API: append_or_get(content_hash, record).
AppendOrGet(st, h, rec) ==
  IF Records(st, h) # {}
  THEN [store |-> st, result |-> "already_present"]
  ELSE [store |-> Append(st, rec), result |-> "written"]

\* Mutant: the sync starts as soon as validation has passed.
SyncTriggeredEarly(c) == state[c] \in {"ReadyForReview", "Approved"}

\* Approval is what starts a sync.
SyncTriggered(c) == state[c] = "Approved"

\* Mutant: the ledger is looked up under a key that never matches.
LedgerHasNothing(h) == FALSE

\* The idempotency ledger holds a SyncRecord for the hash.
LedgerHas(h) == h \in ledger

FreeRun(r) == run[r].pc = "idle"

\* Mutant: the retry loop has no attempt count.
CanRetryAlways(failed) == TRUE

\* A sync is invoked again after a transient failure only while the failures
\* of the case are below the attempt count; then the failure is surfaced.
CanRetry(failed) == failed < MaxAttempts

\* The attempts of the sync of a case: the failed ones and those under way.
Attempts(c) ==
  failures[c] + Cardinality({r \in Runs : run[r].pc # "idle" /\ run[r].case = c})

\* Mutant: the escalation is logged and nothing looks at it again.
OnHoldNever(h) == FALSE

\* The hash was escalated to manual reconciliation: nothing automatic may
\* act on it any more.
OnHold(h) == h \in reconcile

SyncOutcome(c, op, result, error) ==
  outcome' = [case |-> c, op |-> op, from |-> state[c], to |-> state[c],
              result |-> result, error |-> error]

\* sync(submission), first step: hash the submission and check the ledger.
\* With a SyncRecord present the invocation returns success at once.
SyncStart(r, c) ==
  LET h == ContentHash(c)
  IN  /\ FreeRun(r)
      /\ \A q \in Runs : q < r => ~FreeRun(q)
      /\ SyncTriggered(c)
      /\ ~OnHold(h)
      /\ CanRetry(Attempts(c))
      /\ IF LedgerHas(h)
         THEN /\ run' = [run EXCEPT ![r] = IdleRun]
              /\ confirmed' = [confirmed EXCEPT ![c] = TRUE]
              /\ failures' = [failures EXCEPT ![c] = 0]
              /\ SyncOutcome(c, "sync_check", "already_synced", "none")
         ELSE /\ run' = [run EXCEPT ![r] = [pc |-> "checked", case |-> c,
                                            hash |-> h]]
              /\ UNCHANGED <<confirmed, failures>>
              /\ SyncOutcome(c, "sync_check", "absent", "none")
      /\ UNCHANGED <<caseVars, bundle, verdict, artifact, notified,
                     ledger, store, reconcile>>

\* Second step: write the record to the permanent store.  An invocation
\* that finds its hash escalated gives up.
StoreWrite(r) ==
  LET c == run[r].case
      w == AppendOrGet(store, run[r].hash, [hash |-> run[r].hash, case |-> c])
  IN  /\ run[r].pc = "checked"
      /\ IF OnHold(run[r].hash)
         THEN /\ run' = [run EXCEPT ![r] = IdleRun]
              /\ SyncOutcome(c, "sync_store", "held", "SyncConflict")
              /\ UNCHANGED store
         ELSE /\ store' = w.store
              /\ run' = [run EXCEPT ![r].pc = "written"]
              /\ SyncOutcome(c, "sync_store", w.result, "none")
      /\ UNCHANGED <<caseVars, bundle, verdict, artifact, notified,
                     confirmed, ledger, reconcile, failures>>

\* Mutant: the sync is confirmed once the store holds the record, the
\* SyncRecord is left for later.
LedgerWriteDeferred(r) ==
  LET c == run[r].case
  IN  /\ run[r].pc = "written"
      /\ run' = [run EXCEPT ![r] = IdleRun]
      /\ confirmed' = [confirmed EXCEPT ![c] = TRUE]
      /\ SyncOutcome(c, "sync_ledger", "recorded", "none")
      /\ UNCHANGED <<caseVars, bundle, verdict, artifact, notified, store,
                     ledger, reconcile, failures>>

\* Third step: the verification read of the store found the record, the
\* SyncRecord is written and the sync is confirmed.  An invocation that finds
\* its hash escalated gives up.
LedgerWrite(r) ==
  LET c == run[r].case
  IN  /\ run[r].pc = "written"
      /\ run' = [run EXCEPT ![r] = IdleRun]
      /\ IF OnHold(run[r].hash)
         THEN /\ SyncOutcome(c, "sync_ledger", "held", "SyncConflict")
              /\ UNCHANGED <<ledger, confirmed, failures>>
         ELSE /\ ledger' = ledger \cup {run[r].hash}
              /\ confirmed' = [confirmed EXCEPT ![c] = TRUE]
              /\ failures' = [failures EXCEPT ![c] = 0]
              /\ SyncOutcome(c, "sync_ledger", "recorded", "none")
      /\ UNCHANGED <<caseVars, bundle, verdict, artifact, notified, store,
                     reconcile>>

\* A network or storage failure ends the invocation, before the store write
\* or between the store write and the ledger write.
SyncFail(r) ==
  LET c == run[r].case
  IN  /\ run[r].pc \in {"checked", "written"}
      /\ run' = [run EXCEPT ![r] = IdleRun]
      /\ failures' = [failures EXCEPT ![c] = IF confirmed[c] THEN @ ELSE @ + 1]
      /\ SyncOutcome(c, "sync_fail",
                     IF run[r].pc = "checked" THEN "failed_before_store"
                                              ELSE "failed_after_store",
                     IF confirmed[c] \/ CanRetry(failures[c] + 1)
                     THEN "TransientError" ELSE "RetriesExhausted")
      /\ UNCHANGED <<caseVars, bundle, verdict, artifact, notified,
                     confirmed, ledger, store, reconcile>>

\* The verification read after the store write fails or disagrees with the
\* ledger: the hash is escalated to manual reconciliation and the invocation
\* ends; it is not tried again.
SyncConflict(r) ==
  LET c == run[r].case
  IN  /\ run[r].pc = "written"
      /\ ~OnHold(run[r].hash)
      /\ reconcile' = reconcile \cup {run[r].hash}
      /\ run' = [run EXCEPT ![r] = IdleRun]
      /\ SyncOutcome(c, "sync_verify", "escalated", "SyncConflict")
      /\ UNCHANGED <<caseVars, bundle, verdict, artifact, notified,
                     confirmed, ledger, store, failures>>

\* ------------------------------------------------------ Disposition Handler
\* Mutant: the confirmation of the sync never reaches the disposition.
SyncConfirmedNever(c) == FALSE

\* Mutant: the pull request is marked synced without waiting for the sync.
SyncConfirmedAlways(c) == TRUE

\* The Sync Client has confirmed persistence for the case.
SyncConfirmed(c) == confirmed[c]

\* Mutant: the case is moved although the discard failed.
DisposeLeaky(c, op, to, discarded) ==
  /\ Moved(c, op, to, "automation")
  /\ artifact' = [artifact EXCEPT ![c] = ~discarded]
  /\ notified' = [notified EXCEPT ![c] = @ \/ to = "Closed"]
  /\ UNCHANGED <<bundle, verdict, syncVars>>

\* The last action of a terminal transition: the transit artifact is
\* discarded and only then is the case moved; a failed discard leaves the
\* case where it was.
Dispose(c, op, to, discarded) ==
  IF discarded
  THEN /\ Moved(c, op, to, "automation")
       /\ artifact' = [artifact EXCEPT ![c] = FALSE]
       /\ notified' = [notified EXCEPT ![c] = @ \/ to = "Closed"]
       /\ UNCHANGED <<bundle, verdict, syncVars>>
  ELSE Aborted(c, op, to, "DiscardFailed")

\* Approved -> Synced once the Sync Client has confirmed persistence.
MarkSynced(c, discarded) ==
  /\ CanMove(c, "Synced", DispositionEdges)
  /\ SyncConfirmed(c)
  /\ ~OnHold(ContentHash(c))
  /\ Dispose(c, "mark_synced", "Synced", discarded)

\* Rejected -> Closed: the artifact is discarded and the rejection notified.
Close(c, discarded) ==
  /\ CanMove(c, "Closed", DispositionEdges)
  /\ Dispose(c, "close", "Closed", discarded)

\* ----------------------------------------------------------- specification
\* Every operation reads the state of its case and writes it in one step.
Next ==
  \/ \E c \in Cases : Ingest(c) /\ UNCHANGED auxVars
  \/ \E c \in Cases, b \in Bundles : PushRevision(c, b) /\ UNCHANGED auxVars
  \/ \E c \in Cases : CompleteValidation(c) /\ UNCHANGED auxVars
  \/ \E c \in Cases, d \in Decisions : Review(c, d) /\ UNCHANGED auxVars
  \/ \E r \in Runs, c \in Cases : SyncStart(r, c) /\ UNCHANGED auxVars
  \/ \E r \in Runs : StoreWrite(r) /\ UNCHANGED auxVars
  \/ \E r \in Runs : LedgerWrite(r) /\ UNCHANGED auxVars
  \/ \E r \in Runs : SyncFail(r) /\ UNCHANGED auxVars
  \/ \E r \in Runs : SyncConflict(r) /\ UNCHANGED auxVars
  \/ \E c \in Cases, ok \in BOOLEAN : MarkSynced(c, ok) /\ UNCHANGED auxVars
  \/ \E c \in Cases, ok \in BOOLEAN : Close(c, ok) /\ UNCHANGED auxVars

Spec == Init /\ [][Next]_vars

\* The automation runs on every event of a pull request and a failed step is
\* run again: ingestion and validation are not put off forever, a sync is
\* invoked again and again while its case waits for it, an invocation under
\* way goes on unless it fails, and a discard succeeds in the end.  The
\* cases are alike: the first one is followed, the other one runs as it may.
Followed == {1}

Fairness ==
  /\ \A c \in Followed :
       /\ WF_vars(Ingest(c) /\ UNCHANGED auxVars)
       /\ WF_vars(CompleteValidation(c) /\ UNCHANGED auxVars)
       /\ SF_vars(\E r \in Runs : SyncStart(r, c) /\ UNCHANGED auxVars)
       /\ WF_vars(MarkSynced(c, TRUE) /\ UNCHANGED auxVars)
  /\ \A r \in Runs :
       /\ WF_vars(StoreWrite(r) /\ UNCHANGED auxVars)
       /\ WF_vars(LedgerWrite(r) /\ UNCHANGED auxVars)

\* The cases start with a complete or a limited bundle (a push brings any
\* bundle).
FirstBundles == {"good", "limited"}

InitGuarded == Init /\ bundle \in [Cases -> FirstBundles]

SpecLive == InitGuarded /\ [][Next]_vars /\ Fairness

\* ------------------------------------------- requests the machine refuses
\* Every operation asks for one target state and may take the edges of its
\* own kind; a request whose edge is not among them is refused with
\* InvalidTransition and nothing is changed.
RequestEdges(op) ==
  CASE op = "ingest" -> IngestEdges
    [] op = "push" -> RevisionEdges
    [] op = "validate" -> ValidationEdges
    [] op \in Decisions -> ReviewEdges
    [] op \in {"mark_synced", "close"} -> DispositionEdges

RequestTargets(c, op) ==
  CASE op \in {"ingest", "push"} -> {"Validating"}
    [] op = "validate" -> {VerdictTarget(Evaluate(BundleTable[bundle[c]]))}
    [] op \in Decisions -> {DecisionTarget(op)}
    [] op = "mark_synced" -> {"Synced"}
    [] op = "close" -> {"Closed"}

Operations == {"ingest", "push", "validate", "mark_synced", "close"} \cup Decisions

Refuse(c, op, to) ==
  /\ ~CanMove(c, to, RequestEdges(op))
  /\ Aborted(c, op, to, "InvalidTransition")

NextGuarded ==
  \/ Next
  \/ \E c \in Cases, op \in Operations :
       \E to \in RequestTargets(c, op) :
         Refuse(c, op, to) /\ UNCHANGED auxVars

SpecGuarded == InitGuarded /\ [][NextGuarded]_vars

\* ------------------------------- the sample count verification on its own
\* The sample ids a trajectory file can hold: the canonical ids and one id
\* the benchmark does not have; a file holds at most one record more than
\* the benchmark has samples.
SampleIds == 1..(CanonSize + 1)

Trajectories == UNION {[1..n -> SampleIds] : n \in 0..(CanonSize + 1)}

\* One benchmark of a submission: the sample ids of its trajectory records
\* and the n_samples its score triple reports (a positive integer).
Probes == [benchmark : Benchmarks, ids : Trajectories,
           n_samples : 1..(CanonSize + 1)]

InitVerifier ==
  /\ state = [c \in Cases |-> "Created"]
  /\ history = [c \in Cases |-> <<>>]
  /\ labels = [c \in Cases |-> {}]
  /\ reviewRequested = [c \in Cases |-> FALSE]
  /\ bundle = [c \in Cases |-> "good"]
  /\ verdict = [c \in Cases |-> {}]
  /\ artifact = [c \in Cases |-> TRUE]
  /\ notified = [c \in Cases |-> FALSE]
  /\ confirmed = [c \in Cases |-> FALSE]
  /\ ledger = {}
  /\ store = <<>>
  /\ run = [r \in Runs |-> IdleRun]
  /\ reconcile = {}
  /\ failures = [c \in Cases |-> 0]
  /\ outcome = NoOutcome
  /\ attempt = NoAttempt
  /\ probe \in Probes
  /\ report = NoReport
  /\ csv = <<>>
  /\ page = NoPage
  /\ ui = NoPage

\* The Sample-Count Verifier is run on the benchmark: the trajectory sample
\* ids are compared with the canonical set; n_samples is not an input.
VerifySamples ==
  /\ report = NoReport
  /\ report' = SampleCountFailures(probe.ids, CanonicalIds(probe.benchmark))
  /\ UNCHANGED <<caseVars, bundle, verdict, artifact, notified, syncVars,
                 outcome, attempt, probe, webVars>>

SpecVerifier == InitVerifier /\ [][VerifySamples]_vars

\* ------------------------------------- requests that race for one case
\* An actor reads the state of case c, finds its operation allowed there and
\* prepares the request; a validation also holds the bundle it evaluated.
\* The write comes later, after other actors may have moved the case.
Observe(c, op) ==
  /\ attempt = NoAttempt
  /\ \E to \in RequestTargets(c, op) : CanMove(c, to, RequestEdges(op))
  /\ op = "push" => Pushes(c) < MaxRevisions
  /\ attempt' = [case |-> c, op |-> op, seen |-> state[c],
                 bundle |-> IF op = "validate" THEN bundle[c] ELSE "none",
                 step |-> Len(history[c])]
  /\ UNCHANGED <<caseVars, bundle, verdict, artifact, notified, syncVars,
                 outcome, probe, report, webVars>>

\* The operation of a prepared request, carried out.
Perform(a) ==
  CASE a.op = "ingest" -> Ingest(a.case)
    [] a.op = "push" -> \E b \in Bundles : PushRevision(a.case, b)
    [] a.op = "validate" ->
         ApplyVerdict(a.case, Evaluate(BundleTable[a.bundle]))
    [] a.op \in Decisions -> Review(a.case, a.op)
    [] a.op = "mark_synced" -> \E ok \in BOOLEAN : MarkSynced(a.case, ok)
    [] a.op = "close" -> \E ok \in BOOLEAN : Close(a.case, ok)

\* The target a prepared request asks for.
Requested(a) ==
  IF a.op = "validate"
  THEN VerdictTarget(Evaluate(BundleTable[a.bundle]))
  ELSE CHOOSE to \in RequestTargets(a.case, a.op) : TRUE

\* Mutant: the write does not compare the state with the state read; the
\* case is put into the requested state whatever happened in between.
SwapBlind(a) ==
  /\ Moved(a.case, a.op, Requested(a), "automation")
  /\ UNCHANGED <<bundle, verdict, artifact, notified, syncVars>>

\* Compare-and-swap on the state field of the case: the write happens only
\* if the state is still the one read, else the request is refused with
\* InvalidTransition and nothing is changed.
Swap(a) ==
  IF state[a.case] = a.seen
  THEN Perform(a)
  ELSE Aborted(a.case, a.op, Requested(a), "InvalidTransition")

\* The prepared request is written.
Commit ==
  /\ attempt # NoAttempt
  /\ Swap(attempt)
  /\ attempt' = NoAttempt
  /\ UNCHANGED <<probe, report, webVars>>

\* The cases are alike and one request at a time is held back, so the
\* held-back request is one for the first case.
Racers == {1}

InitRacing == Init /\ bundle \in [Cases -> FirstBundles]

NextRacing ==
  \/ Next
  \/ \E c \in Racers, op \in Operations : Observe(c, op)
  \/ Commit

SpecRacing == InitRacing /\ [][NextRacing]_vars

\* ------------------------------------------- the leaderboard pages: text
\* A text is a sequence of characters; an absent field reads as undefined,
\* which as a text is no number, no dash and not empty.  A numeric value of
\* the page's script is a number, kept in hundredths, null or NaN.
Scale == 100
Num(n) == [kind |-> "number", val |-> n]
Null == [kind |-> "null", val |-> 0]
NaN == [kind |-> "NaN", val |-> 0]
Undefined == <<"undefined">>

EmDash == "em-dash"
Digits == <<"0", "1", "2", "3", "4", "5", "6", "7", "8", "9">>
DigitValue(ch) == CHOOSE d \in 0..9 : Digits[d + 1] = ch
WhiteSpace == {" ", "\n", "\t", "\r"}

RECURSIVE TrimStart(_)
TrimStart(s) ==
  IF s # <<>> /\ Head(s) \in WhiteSpace THEN TrimStart(Tail(s)) ELSE s

RECURSIVE TrimEnd(_)
TrimEnd(s) ==
  IF s # <<>> /\ s[Len(s)] \in WhiteSpace
  THEN TrimEnd(SubSeq(s, 1, Len(s) - 1)) ELSE s

\* String.prototype.trim
Trim(s) == TrimEnd(TrimStart(s))

\* The longest prefix of s whose characters are in the set.
RECURSIVE Prefix(_, _)
Prefix(s, chars) ==
  IF s # <<>> /\ Head(s) \in chars
  THEN <<Head(s)>> \o Prefix(Tail(s), chars) ELSE <<>>

RECURSIVE DecimalValue(_)
DecimalValue(ds) ==
  IF ds = <<>> THEN 0
  ELSE 10 * DecimalValue(SubSeq(ds, 1, Len(ds) - 1)) + DigitValue(ds[Len(ds)])

\* The digits after the point, as hundredths (further digits are dropped).
Hundredths(ds) ==
  (IF Len(ds) >= 1 THEN 10 * DigitValue(ds[1]) ELSE 0)
    + (IF Len(ds) >= 2 THEN DigitValue(ds[2]) ELSE 0)

Sign(s) == IF s # <<>> /\ Head(s) = "-" THEN -1 ELSE 1
Unsigned(s) == IF s # <<>> /\ Head(s) \in {"-", "+"} THEN Tail(s) ELSE s

\* parseInt(val, 10): leading white space, a sign, then the digits at the
\* front; NaN when there is none.
ParseInt(val) ==
  LET t == TrimStart(val)
      ds == Prefix(Unsigned(t), Range(Digits))
  IN  IF ds = <<>> THEN NaN ELSE Num(Sign(t) * DecimalValue(ds))

\* parseFloat(val): leading white space, a sign, digits, a point, digits, of
\* which one digit at least; NaN otherwise.  (Exponents are not modelled.)
ParseFloat(val) ==
  LET t == TrimStart(val)
      u == Unsigned(t)
      ip == Prefix(u, Range(Digits))
      rest == SubSeq(u, Len(ip) + 1, Len(u))
      fp == IF rest # <<>> /\ Head(rest) = "."
            THEN Prefix(Tail(rest), Range(Digits)) ELSE <<>>
  IN  IF ip = <<>> /\ fp = <<>> THEN NaN
      ELSE Num(Sign(t) * (Scale * DecimalValue(ip) + Hundredths(fp)))

\* extractScore: null for an absent or empty field or a dash, else the number
\* at the front of the field (digits and points), null when there is none.
ExtractScore(val) ==
  IF val = Undefined \/ val = <<>> \/ val = <<EmDash>> \/ val = <<"-">>
  THEN Null
  ELSE LET m == Prefix(val, Range(Digits) \cup {"."})
       IN  IF m = <<>> THEN Null ELSE ParseFloat(m)

\* String.prototype.split('\n')
RECURSIVE SplitLines(_)
SplitLines(s) ==
  LET first == Prefix(s, Range(s) \ {"\n"})
  IN  IF Len(first) = Len(s) THEN <<first>>
      ELSE <<first>> \o SplitLines(SubSeq(s, Len(first) + 2, Len(s)))

\* Mutant: the line is split at every comma.
ScanLineNaive(line, j, values, current, inQuotes) ==
  LET RECURSIVE Split(_, _, _)
      Split(k, vs, cur) ==
        IF k > Len(line) THEN Append(vs, Trim(cur))
        ELSE IF line[k] = "\"" THEN Split(k + 1, vs, cur)
        ELSE IF line[k] = "," THEN Split(k + 1, Append(vs, Trim(cur)), <<>>)
        ELSE Split(k + 1, vs, Append(cur, line[k]))
  IN  Split(j, values, current)

\* The scanner of a line: from character j on, with the fields found so far,
\* the field under way and whether the scanner is inside quotes.
RECURSIVE ScanLine(_, _, _, _, _)
ScanLine(line, j, values, current, inQuotes) ==
  IF j > Len(line) THEN Append(values, Trim(current))
  ELSE IF line[j] = "\""
       THEN ScanLine(line, j + 1, values, current, ~inQuotes)
  ELSE IF line[j] = "," /\ ~inQuotes
       THEN ScanLine(line, j + 1, Append(values, Trim(current)), <<>>, inQuotes)
  ELSE ScanLine(line, j + 1, values, Append(current, line[j]), inQuotes)

Values(line) == ScanLine(line, 1, <<>>, <<>>, FALSE)

\* values[k] of the script, from 0.
Field(values, k) == IF k + 1 <= Len(values) THEN values[k + 1] ELSE Undefined

\* values[k] || ''
OrEmpty(v) == IF v = Undefined THEN <<>> ELSE v

\* The entry of a line whose rank parses.
Entry(values) ==
  [rank |-> ParseInt(Field(values, 0)),
   provider |-> OrEmpty(Field(values, 1)),
   model |-> OrEmpty(Field(values, 2)),
   repo |-> OrEmpty(Field(values, 3)),
   mean |-> IF Field(values, 4) = <<EmDash>> THEN Null
            ELSE ParseFloat(Field(values, 4)),
   teleqna |-> ExtractScore(Field(values, 5)),
   telelogs |-> ExtractScore(Field(values, 6)),
   telemath |-> ExtractScore(Field(values, 7)),
   tsg |-> ExtractScore(Field(values, 8)),
   teleyaml |-> ExtractScore(Field(values, 9))]

RECURSIVE ParseLines(_, _, _)
ParseLines(lines, i, entries) ==
  IF i > Len(lines) THEN entries
  ELSE LET values == Values(lines[i])
       IN  IF ParseInt(Field(values, 0)) = NaN
           THEN ParseLines(lines, i + 1, entries)
           ELSE ParseLines(lines, i + 1, Append(entries, Entry(values)))

\* parseCSV of the dashboard: the lines after the first one.
ParseCSV(csvText) == ParseLines(SplitLines(Trim(csvText)), 2, <<>>)

\* parseCSV on its own: the texts it is given.
MaxText == 6
Alphabet == {"1", "2", "x", ",", "\"", "\n"}
Texts == UNION {[1..n -> Alphabet] : n \in 0..MaxText}

NotParsed == [done |-> FALSE, entries |-> <<>>]

InitParse ==
  /\ state = [c \in Cases |-> "Created"]
  /\ history = [c \in Cases |-> <<>>]
  /\ labels = [c \in Cases |-> {}]
  /\ reviewRequested = [c \in Cases |-> FALSE]
  /\ bundle = [c \in Cases |-> "good"]
  /\ verdict = [c \in Cases |-> {}]
  /\ artifact = [c \in Cases |-> TRUE]
  /\ notified = [c \in Cases |-> FALSE]
  /\ confirmed = [c \in Cases |-> FALSE]
  /\ ledger = {}
  /\ store = <<>>
  /\ run = [r \in Runs |-> IdleRun]
  /\ reconcile = {}
  /\ failures = [c \in Cases |-> 0]
  /\ outcome = NoOutcome
  /\ attempt = NoAttempt
  /\ probe \in Texts
  /\ report = NotParsed
  /\ csv = <<>>
  /\ page = NoPage
  /\ ui = NoPage

lifecycleVars ==
  <<caseVars, bundle, verdict, artifact, notified, syncVars, outcome, attempt>>

Parse ==
  /\ ~report.done
  /\ report' = [done |-> TRUE, entries |-> ParseCSV(probe)]
  /\ UNCHANGED <<lifecycleVars, probe, webVars>>

SpecParse == InitParse /\ [][Parse]_vars

\* ---------------------------------- the leaderboard pages: the index
\* The four benchmarks of the Telco Capability Index (TeleYAML is left out).
IndexKeys == {"teleqna", "telelogs", "telemath", "tsg"}

\* benchmarkDifficulty and benchmarkSlope, in tenths.
BenchmarkDifficulty == [teleqna |-> 7, telelogs |-> 3, telemath |-> 4, tsg |-> 4]
BenchmarkSlope == [teleqna |-> 12, telelogs |-> 15, telemath |-> 13, tsg |-> 12]

\* Math.log(p / (1 - p)) in thousandths at p = 0.01, 0.1, 0.3, 0.5, 0.7, 0.9
\* and 0.99 (p in ten-thousandths), a straight line between two of them.
LogitKnots ==
  << <<100, -4595>>, <<1000, -2197>>, <<3000, -847>>, <<5000, 0>>,
     <<7000, 847>>, <<9000, 2197>>, <<9900, 4595>> >>

Logit(p) ==
  LET lo == CHOOSE i \in DOMAIN LogitKnots :
              /\ LogitKnots[i][1] <= p
              /\ \A j \in DOMAIN LogitKnots :
                   LogitKnots[j][1] <= p => j <= i
      a == LogitKnots[lo]
  IN  IF a[1] = p THEN a[2]
      ELSE LET b == LogitKnots[lo + 1]
           IN  a[2] + ((b[2] - a[2]) * (p - a[1])) \div (b[1] - a[1])

\* Math.max(0.01, Math.min(0.99, score)), score = value / 100.
Adjusted(v) == IF v < 100 THEN 100 ELSE IF v > 9900 THEN 9900 ELSE v

\* The benchmarks of the entry that have a value (which NaN is).
Scored(entry) == {k \in IndexKeys : entry[k] # Null}

RECURSIVE Sum(_, _)
Sum(f, keys) ==
  IF keys = {} THEN 0
  ELSE LET k == CHOOSE k \in keys : TRUE IN f[k] + Sum(f, keys \ {k})

\* 115 + 20 * (weighted capability / total weight), rounded to a tenth; NaN
\* when one of the values is NaN.
IndexOf(entry) ==
  LET keys == Scored(entry)
      weight == [k \in keys |-> (10 - BenchmarkDifficulty[k]) * BenchmarkSlope[k]]
      term == [k \in keys |->
                 (Logit(Adjusted(entry[k].val))
                    + 200 * (10 - BenchmarkDifficulty[k])) * weight[k]]
      w == Sum(weight, keys)
      tenths == (2 * (5750 * w + Sum(term, keys)) + 5 * w) \div (10 * w)
  IN  IF \E k \in keys : entry[k] = NaN THEN NaN ELSE Num(10 * tenths)

\* Mutant: TeleYAML counts among the scores that are needed.
CalculateTCIOfFive(entry) ==
  IF Cardinality({k \in IndexKeys \cup {"teleyaml"} : entry[k] # Null}) < 3
       \/ Scored(entry) = {}
  THEN Null ELSE IndexOf(entry)

\* calculateTCI: null with fewer than three of the four scores.
CalculateTCI(entry) ==
  IF Cardinality(Scored(entry)) < 3 THEN Null ELSE IndexOf(entry)

\* The entry of the Models page: entry.tci = calculateTCI(entry).
WithTCI(e) ==
  [rank |-> e.rank, provider |-> e.provider, model |-> e.model,
   repo |-> e.repo, mean |-> e.mean, teleqna |-> e.teleqna,
   telelogs |-> e.telelogs, telemath |-> e.telemath, tsg |-> e.tsg,
   teleyaml |-> e.teleyaml, tci |-> CalculateTCI(e)]

\* parseCSV of the Models page.
ParseCSVModels(csvText) ==
  LET entries == ParseCSV(csvText)
  IN  [i \in DOMAIN entries |-> WithTCI(entries[i])]

\* A point of the dashboard chart (colour and label flag left out).
Point(e) ==
  [rank |-> e.rank, tci |-> CalculateTCI(e), model |-> e.model,
   provider |-> e.provider, teleqna |-> e.teleqna, telelogs |-> e.telelogs,
   telemath |-> e.telemath, tsg |-> e.tsg]

\* chartData of the dashboard: the entries that have an index.
ChartData(leaderboardData) ==
  SelectSeq([i \in DOMAIN leaderboardData |-> Point(leaderboardData[i])],
            LAMBDA d : d.tci # Null)

\* The leaderboard file: a header and the rows, a field with a comma quoted.
Quoted(field) ==
  IF "," \in Range(field) THEN <<"\"">> \o field \o <<"\"">> ELSE field

RECURSIVE Joined(_, _)
Joined(parts, sep) ==
  IF parts = <<>> THEN <<>>
  ELSE IF Len(parts) = 1 THEN parts[1]
  ELSE parts[1] \o sep \o Joined(Tail(parts), sep)

Header == <<"R", ",", "P", ",", "M">>

Body(rows) ==
  LET Line(fields) ==
        Joined([i \in DOMAIN fields |-> Quoted(fields[i])], <<",">>)
  IN  Joined(<<Header>> \o [i \in DOMAIN rows |-> Line(rows[i])], <<"\n">>)

\* The index on its own: a row with every way its score fields and its mean
\* can be filled in, followed by a row with all scores.
ScoreFields == {<<"7", "0">>, <<EmDash>>, <<>>, <<".">>}
MeanFields == {<<"6", "0">>, <<EmDash>>, <<"-">>}

IndexRows ==
  {<<<<"1">>, <<"A">>, <<"m">>, <<>>, m, s[1], s[2], s[3], s[4], s[5]>> :
     m \in MeanFields, s \in [1..5 -> ScoreFields]}

FullRow ==
  <<<<"2">>, <<"B">>, <<"n">>, <<>>, <<"5", "0">>, <<"3", "0">>, <<"3", "0">>,
    <<"3", "0">>, <<"3", "0">>, <<"3", "0">>>>

NotIndexed == [done |-> FALSE, models |-> <<>>, chart |-> <<>>]

InitIndex ==
  /\ state = [c \in Cases |-> "Created"]
  /\ history = [c \in Cases |-> <<>>]
  /\ labels = [c \in Cases |-> {}]
  /\ reviewRequested = [c \in Cases |-> FALSE]
  /\ bundle = [c \in Cases |-> "good"]
  /\ verdict = [c \in Cases |-> {}]
  /\ artifact = [c \in Cases |-> TRUE]
  /\ notified = [c \in Cases |-> FALSE]
  /\ confirmed = [c \in Cases |-> FALSE]
  /\ ledger = {}
  /\ store = <<>>
  /\ run = [r \in Runs |-> IdleRun]
  /\ reconcile = {}
  /\ failures = [c \in Cases |-> 0]
  /\ outcome = NoOutcome
  /\ attempt = NoAttempt
  /\ probe \in {Body(<<row, FullRow>>) : row \in IndexRows}
  /\ report = NotIndexed
  /\ csv = <<>>
  /\ page = NoPage
  /\ ui = NoPage

\* Both pages read the file: the Models page keeps the entries, the
\* dashboard charts them.
Index ==
  /\ ~report.done
  /\ report' = [done |-> TRUE, models |-> ParseCSVModels(probe),
                chart |-> ChartData(ParseCSV(probe))]
  /\ UNCHANGED <<lifecycleVars, probe, webVars>>

SpecIndex == InitIndex /\ [][Index]_vars

\* ------------------------------ the leaderboard pages: the components
\* The dashboard chart and the Models page each load the file once.
Components == {"TelcoCapabilityIndex", "ModelsPage"}

\* useState: loading = true, data = [], error = null; the effect has not run.
NoError == "null"
Mounted ==
  [phase |-> "mounted", loading |-> TRUE, data |-> <<>>, error |-> NoError,
   fetches |-> 0, response |-> "none", thrown |-> NoError, parsed |-> FALSE]

\* What the fetch comes back with: a rejection, or a response that is ok or
\* not.  The message of a rejection is the browser's.
Responses == {"rejected", "notok", "ok"}
NetworkError == "Failed to fetch"
FailedToLoad(comp) ==
  IF comp = "ModelsPage" THEN "Failed to load data"
  ELSE "Failed to load leaderboard data"

\* The page shows the loading note, the error or its content.
View(p) ==
  IF p.loading THEN "loading" ELSE IF p.error # NoError THEN "error"
  ELSE "content"

\* toLowerCase, for the letters of the file.
UpperCase == <<"A", "B", "I", "N">>
LowerCase == <<"a", "b", "i", "n">>
ToLowerCase(s) ==
  [i \in DOMAIN s |->
     IF \E k \in DOMAIN UpperCase : UpperCase[k] = s[i]
     THEN LowerCase[CHOOSE k \in DOMAIN UpperCase : UpperCase[k] = s[i]]
     ELSE s[i]]

\* String.prototype.includes
Includes(s, q) ==
  \E i \in 0..(Len(s) - Len(q)) : SubSeq(s, i + 1, i + Len(q)) = q

\* localeCompare of two model names: the first place they differ at decides,
\* by the alphabet.
Collation == <<"m", "n", "o", "p", "q">>
RECURSIVE LocaleCompare(_, _)
LocaleCompare(a, b) ==
  LET Place(ch) == CHOOSE k \in DOMAIN Collation : Collation[k] = ch
  IN  IF a = <<>> /\ b = <<>> THEN 0
      ELSE IF a = <<>> THEN -1
      ELSE IF b = <<>> THEN 1
      ELSE IF Head(a) = Head(b) THEN LocaleCompare(Tail(a), Tail(b))
      ELSE IF Place(Head(a)) < Place(Head(b)) THEN -1 ELSE 1

\* The comparator of the sort for two keys: an entry without a key (null)
\* goes last, else b - a; a difference that is NaN counts as 0 in the sort.
CompareKeys(ka, kb) ==
  IF ka = Null /\ kb = Null THEN 0
  ELSE IF ka = Null THEN 1
  ELSE IF kb = Null THEN -1
  ELSE IF ka = NaN \/ kb = NaN THEN 0
  ELSE kb.val - ka.val

Compare(a, b, sortBy) ==
  IF sortBy = "tci" THEN CompareKeys(a.tci, b.tci)
  ELSE IF sortBy = "mean" THEN CompareKeys(a.mean, b.mean)
  ELSE LocaleCompare(a.model, b.model)

\* The comparator is a consistent comparison function for the entries: it
\* divides them into classes that are totally ordered.
ConsistentFor(list, sortBy) ==
  \A a, b, c \in Range(list) :
    /\ Compare(a, a, sortBy) = 0
    /\ Compare(a, b, sortBy) = 0 => Compare(b, a, sortBy) = 0
    /\ Compare(a, b, sortBy) < 0 <=> Compare(b, a, sortBy) > 0
    /\ (Compare(a, b, sortBy) = 0 /\ Compare(b, c, sortBy) = 0)
         => Compare(a, c, sortBy) = 0
    /\ (Compare(a, b, sortBy) < 0 /\ Compare(b, c, sortBy) < 0)
         => Compare(a, c, sortBy) < 0
    /\ (Compare(a, b, sortBy) > 0 /\ Compare(b, c, sortBy) > 0)
         => Compare(a, c, sortBy) > 0

\* The entry is put behind the last entry of the sorted list that does not
\* come after it.
RECURSIVE Inserted(_, _, _)
Inserted(sorted, e, sortBy) ==
  IF sorted = <<>> THEN <<e>>
  ELSE IF Compare(sorted[Len(sorted)], e, sortBy) <= 0 THEN Append(sorted, e)
  ELSE Append(Inserted(SubSeq(sorted, 1, Len(sorted) - 1), e, sortBy),
              sorted[Len(sorted)])

RECURSIVE StableSort(_, _)
StableSort(list, sortBy) ==
  IF list = <<>> THEN <<>>
  ELSE Inserted(StableSort(SubSeq(list, 1, Len(list) - 1), sortBy),
                list[Len(list)], sortBy)

Orders(list) ==
  {[i \in DOMAIN list |-> list[f[i]]] :
     f \in {g \in [DOMAIN list -> DOMAIN list] :
              \A i, j \in DOMAIN list : g[i] = g[j] => i = j}}

\* Array.prototype.sort: stable for a consistent comparator, else the order
\* is whatever the engine makes of it.
Sorted(list, sortBy) ==
  IF ConsistentFor(list, sortBy) THEN {StableSort(list, sortBy)}
  ELSE Orders(list)

\* filteredData: a copy of the data, filtered by the search and by the
\* selected providers when there are any, then sorted.
FilteredData(data, searchQuery, selectedProviders, sortBy) ==
  LET query == ToLowerCase(searchQuery)
      found == IF searchQuery # <<>>
               THEN SelectSeq(data, LAMBDA d :
                      \/ Includes(ToLowerCase(d.model), query)
                      \/ Includes(ToLowerCase(d.provider), query))
               ELSE data
      chosen == IF selectedProviders # {}
                THEN SelectSeq(found, LAMBDA d : d.provider \in selectedProviders)
                ELSE found
  IN  Sorted(chosen, sortBy)

\* The providers of the side bar.
Providers(data) == {data[i].provider : i \in DOMAIN data}

\* Mutant: a provider once selected stays selected.
ToggleProviderAddOnly(prev, provider) == prev \cup {provider}

\* toggleProvider: the next selection.
ToggleProvider(prev, provider) ==
  IF provider \in prev THEN prev \ {provider} ELSE prev \cup {provider}

\* The rows of the file the site serves: rows with all scores, with three
\* and with two of the four, a mean that is there, a dash or a hyphen, a
\* provider with a comma, and a row without a rank.
PageRows ==
  { <<<<"1">>, <<"A">>, <<"m">>, <<>>, <<"6", "0">>, <<"7", "0">>, <<"7", "0">>,
      <<"7", "0">>, <<"7", "0">>, <<"7", "0">>>>,
    <<<<"2">>, <<"B">>, <<"n">>, <<>>, <<"5", "0">>, <<"3", "0">>, <<"3", "0">>,
      <<"3", "0">>, <<EmDash>>, <<EmDash>>>>,
    <<<<"3">>, <<"A", ",", "I">>, <<"o">>, <<>>, <<EmDash>>, <<"7", "0">>,
      <<EmDash>>, <<EmDash>>, <<"3", "0">>, <<"7", "0">>>>,
    <<<<"4">>, <<"B">>, <<"p">>, <<>>, <<"-">>, <<"5", "0">>, <<"5", "0">>,
      <<"5", "0">>, <<"5", "0">>, <<"5", "0">>>>,
    <<<<"x">>, <<"A">>, <<"q">>, <<>>, <<"4", "0">>, <<"7", "0">>, <<"7", "0">>,
      <<"7", "0">>, <<"7", "0">>, <<"7", "0">>>> }

MaxRows == 3
Files == {Body(rows) : rows \in UNION {[1..n -> PageRows] : n \in 0..MaxRows}}

\* What the visitor types into the search box.
Queries == {<<>>, <<"a">>, <<"N">>}
SortKeys == {"tci", "mean", "name"}

InitPage ==
  /\ state = [c \in Cases |-> "Created"]
  /\ history = [c \in Cases |-> <<>>]
  /\ labels = [c \in Cases |-> {}]
  /\ reviewRequested = [c \in Cases |-> FALSE]
  /\ bundle = [c \in Cases |-> "good"]
  /\ verdict = [c \in Cases |-> {}]
  /\ artifact = [c \in Cases |-> TRUE]
  /\ notified = [c \in Cases |-> FALSE]
  /\ confirmed = [c \in Cases |-> FALSE]
  /\ ledger = {}
  /\ store = <<>>
  /\ run = [r \in Runs |-> IdleRun]
  /\ reconcile = {}
  /\ failures = [c \in Cases |-> 0]
  /\ outcome = NoOutcome
  /\ attempt = NoAttempt
  /\ probe = NoProbe
  /\ report = NoReport
  /\ csv \in Files
  /\ page = [comp \in Components |-> Mounted]
  /\ ui = [searchQuery |-> <<>>, sortBy |-> "tci", selectedProviders |-> {},
           shown |-> <<>>]

\* Mutant: the effect has no dependency list and runs after every render.
EffectDueEveryRender(p) == TRUE

\* useEffect(..., []): the effect runs once, after the first render.
EffectDue(p) == p.phase = "mounted"

\* The effect issues the fetch.
IssueFetch(comp) ==
  /\ EffectDue(page[comp])
  /\ page' = [page EXCEPT ![comp].phase = "fetching",
                          ![comp].fetches = @ + 1]
  /\ UNCHANGED <<lifecycleVars, probe, report, csv, ui>>

\* Mutant: the status of the response is not looked at.
ResponseOkAlways(r) == TRUE

\* response.ok
ResponseOk(r) == r = "ok"

\* The fetch settles: a rejection goes to the catch with its message, a
\* response that is not ok throws, the text of an ok response is read.
Respond(comp, r) ==
  /\ page[comp].phase = "fetching"
  /\ page' = [page EXCEPT
       ![comp].response = r,
       ![comp].phase = IF r # "rejected" /\ ResponseOk(r) THEN "reading"
                       ELSE "caught",
       ![comp].thrown = IF r = "rejected" THEN NetworkError
                        ELSE IF ResponseOk(r) THEN NoError
                        ELSE FailedToLoad(comp)]
  /\ UNCHANGED <<lifecycleVars, probe, report, csv, ui>>

\* response.text() settles: the text is parsed and setData called; the list
\* of the Models page is worked out again.  Or reading the body fails.
ReadText(comp, arrived) ==
  /\ page[comp].phase = "reading"
  /\ IF arrived
     THEN LET parsed == IF comp = "ModelsPage" THEN ParseCSVModels(csv)
                        ELSE ParseCSV(csv)
          IN  /\ page' = [page EXCEPT ![comp].phase = "loaded",
                                      ![comp].data = parsed,
                                      ![comp].parsed = TRUE]
              /\ IF comp = "ModelsPage"
                 THEN \E r \in FilteredData(parsed, ui.searchQuery,
                                            ui.selectedProviders, ui.sortBy) :
                        ui' = [ui EXCEPT !.shown = r]
                 ELSE UNCHANGED ui
     ELSE /\ page' = [page EXCEPT ![comp].phase = "caught",
                                  ![comp].thrown = NetworkError]
          /\ UNCHANGED ui
  /\ UNCHANGED <<lifecycleVars, probe, report, csv>>

\* setLoading(false) after setData.
FinishLoad(comp) ==
  /\ page[comp].phase = "loaded"
  /\ page' = [page EXCEPT ![comp].phase = "settled", ![comp].loading = FALSE]
  /\ UNCHANGED <<lifecycleVars, probe, report, csv, ui>>

\* The catch: setError(err.message).
SetError(comp) ==
  /\ page[comp].phase = "caught"
  /\ page' = [page EXCEPT ![comp].phase = "failed",
                          ![comp].error = page[comp].thrown]
  /\ UNCHANGED <<lifecycleVars, probe, report, csv, ui>>

\* The catch: setLoading(false).
FinishFail(comp) ==
  /\ page[comp].phase = "failed"
  /\ page' = [page EXCEPT ![comp].phase = "settled", ![comp].loading = FALSE]
  /\ UNCHANGED <<lifecycleVars, probe, report, csv, ui>>

\* The controls of the Models page are there once its content is shown;
\* each of them sets its state and the list is worked out again.
Shows(next) ==
  /\ View(page["ModelsPage"]) = "content"
  /\ \E r \in FilteredData(page["ModelsPage"].data, next.searchQuery,
                           next.selectedProviders, next.sortBy) :
       ui' = [next EXCEPT !.shown = r]
  /\ UNCHANGED <<lifecycleVars, probe, report, csv, page>>

SetSearchQuery(q) == q # ui.searchQuery /\ Shows([ui EXCEPT !.searchQuery = q])

SetSortBy(k) == k # ui.sortBy /\ Shows([ui EXCEPT !.sortBy = k])

ClickProvider(p) ==
  Shows([ui EXCEPT !.selectedProviders = ToggleProvider(@, p)])

NextPage ==
  \/ \E comp \in Components : IssueFetch(comp)
  \/ \E comp \in Components, r \in Responses : Respond(comp, r)
  \/ \E comp \in Components, arrived \in BOOLEAN : ReadText(comp, arrived)
  \/ \E comp \in Components : FinishLoad(comp)
  \/ \E comp \in Components : SetError(comp)
  \/ \E comp \in Components : FinishFail(comp)
  \/ \E q \in Queries : SetSearchQuery(q)
  \/ \E k \in SortKeys : SetSortBy(k)
  \/ \E p \in Providers(page["ModelsPage"].data) : ClickProvider(p)

SpecPage == InitPage /\ [][NextPage]_vars

\* ------------------------------------------------------------ properties
Terminal == {"Synced", "Closed"}

Copies(h) == Cardinality(Records(store, h))

HasEntry(c, from, to) ==
  \E i \in DOMAIN history[c] : history[c][i].from = from /\ history[c][i].to = to

\* The eight edges of the review state machine as the design lists them.
ListedEdges ==
  {<<"Created", "Validating">>, <<"Validating", "ReadyForReview">>,
   <<"Validating", "NeedsWork">>, <<"NeedsWork", "Validating">>,
   <<"ReadyForReview", "Approved">>, <<"ReadyForReview", "Rejected">>,
   <<"Approved", "Synced">>, <<"Rejected", "Closed">>}

\* The listed edges and the one a request for changes takes.
LifecycleEdges == ListedEdges \cup {<<"ReadyForReview", "NeedsWork">>}

\* A step in which an operation asked for an edge outside `edges` is refused
\* with InvalidTransition and leaves state and history as they were.
RefusedOutside(edges) ==
  (outcome'.op \in Operations /\ <<outcome'.from, outcome'.to>> \notin edges)
    => /\ outcome'.error = "InvalidTransition"
       /\ state' = state
       /\ history' = history

\* C1 as stated: every request for an edge that is not one of the eight
\* listed edges fails with InvalidTransition and changes neither the state
\* nor the history of the case.
C1_OnlyListedEdges == [][RefusedOutside(ListedEdges)]_vars

\* C1 amended: every request for an edge that is neither one of the eight
\* listed edges nor ReadyForReview -> NeedsWork (changes requested) fails
\* with InvalidTransition and changes neither state nor history; requesting
\* Approved on a case in Created or Validating fails this way.
C1_OnlyLifecycleEdges == [][RefusedOutside(LifecycleEdges)]_vars

C1_Witness ==
  /\ outcome.op = "approve"
  /\ outcome.from = "Created"
  /\ outcome.error = "InvalidTransition"

\* C2: sync is at-most-once.  Once a sync has been confirmed for a case, or
\* a SyncRecord exists for a hash, the permanent store holds exactly one
\* record of that hash; an invocation that starts when the SyncRecord exists
\* returns success and writes neither the store nor the ledger.
C2_AtMostOnce ==
  /\ [](/\ \A h \in ledger : Copies(h) = 1
        /\ \A c \in Cases : confirmed[c] => Copies(ContentHash(c)) = 1)
  /\ [][\A c \in Cases :
          (/\ outcome'.op = "sync_check"
           /\ outcome'.case = c
           /\ ContentHash(c) \in ledger)
            => /\ outcome'.result = "already_synced"
               /\ outcome'.error = "none"
               /\ confirmed'[c]
               /\ store' = store
               /\ ledger' = ledger]_vars

C2_Witness ==
  /\ outcome.result = "already_synced"
  /\ Copies(ContentHash(outcome.case)) = 1

\* C3: under every interleaving of the ledger check, the store write and the
\* ledger write of concurrent invocations, no two records of the permanent
\* store have the same hash (at most one invocation writes).
C3_NoDoubleWrite ==
  \A i, j \in DOMAIN store : i # j => store[i].hash # store[j].hash

C3_Witness ==
  /\ run[1].pc = "written"
  /\ run[2].pc = "written"
  /\ run[1].hash = run[2].hash
  /\ Copies(run[1].hash) = 1

\* C4: every SyncRecord of the ledger refers to a record present in the
\* store (store first, ledger second), and no failure of an invocation,
\* before the store write or between the store write and the ledger write,
\* followed by a retry leaves a second record of the hash in the store.
C4_RetrySafe ==
  /\ \A h \in ledger : Records(store, h) # {}
  /\ \A c \in Cases : Copies(ContentHash(c)) <= 1
  /\ outcome.result = "failed_after_store"
       => Copies(ContentHash(outcome.case)) = 1
  /\ (outcome.op = "sync_store" /\ outcome.result = "already_present")
       => Copies(ContentHash(outcome.case)) = 1

\* A retry has just met the record its failed predecessor wrote: the store
\* answered already_present, no SyncRecord exists and no other invocation
\* is between the two writes.
C4_Witness ==
  /\ outcome.op = "sync_store"
  /\ outcome.result = "already_present"
  /\ ContentHash(outcome.case) \notin ledger
  /\ Cardinality({r \in Runs : run[r].pc = "written"}) = 1

\* C5: Synced and Closed are terminal, and a case that has been Rejected is
\* in Rejected or Closed ever after.
C5_Terminal ==
  /\ [][\A c \in Cases : state[c] \in Terminal => state'[c] = state[c]]_vars
  /\ [](\A c \in Cases :
          (\E i \in DOMAIN history[c] : history[c][i].to = "Rejected")
            => state[c] \in {"Rejected", "Closed"})

C5_Witness ==
  \E c, d \in Cases : state[c] = "Closed" /\ state[d] = "Synced"

\* Every check of the validation passes on bundle b, for all four benchmarks.
PassesAllChecks(b) ==
  /\ b.columns /\ b.provider /\ b.json /\ b.signature /\ ~b.errors
  /\ \A bm \in Benchmarks :
       /\ Range(b.ids[bm]) = CanonicalIds(bm)
       /\ Len(b.ids[bm]) = Cardinality(CanonicalIds(bm))

\* C6: a case leaves Validating to ReadyForReview iff the verdict's overall
\* flag is true and to NeedsWork iff it is false; the flag is true exactly
\* when the schema, trajectory and sample count checks all pass for all four
\* benchmarks; no case is in ReadyForReview, Approved or Synced with a
\* latest verdict whose overall flag is false.
C6_VerdictDecides ==
  /\ [][\A c \in Cases :
          (state[c] = "Validating" /\ state'[c] # "Validating")
            => \E v \in verdict'[c] :
                 /\ verdict'[c] = {v}
                 /\ v.overall <=> PassesAllChecks(BundleTable[bundle[c]])
                 /\ v.overall <=> \A k \in DOMAIN v.checks : v.checks[k] = {}
                 /\ state'[c] = "ReadyForReview" <=> v.overall
                 /\ state'[c] = "NeedsWork" <=> ~v.overall]_vars
  /\ [](\A c \in Cases :
          state[c] \in {"ReadyForReview", "Approved", "Synced"}
            => verdict[c] # {} /\ \A v \in verdict[c] : v.overall)

C6_Witness ==
  \E c, d \in Cases :
    /\ state[c] = "NeedsWork"
    /\ history[c][Len(history[c])].from = "Validating"
    /\ \A v \in verdict[c] : ~v.overall
    /\ state[d] = "ReadyForReview"
    /\ \A v \in verdict[d] : v.overall

\* C7: a request for changes on a case in ReadyForReview is accepted and
\* moves the case to NeedsWork with the needs-work label, and from there a
\* push of the submitter is accepted (while revisions remain) and puts the
\* case back into Validating.
C7_ChangesRequested ==
  \A c \in Cases :
    /\ state[c] = "ReadyForReview" => ENABLED Review(c, "request_changes")
    /\ (outcome.op = "request_changes" /\ outcome.case = c)
         => /\ outcome.from = "ReadyForReview"
            /\ state[c] = "NeedsWork"
            /\ "needs-work" \in labels[c]
    /\ (state[c] = "NeedsWork" /\ Pushes(c) < MaxRevisions)
         => ENABLED (\E b \in Bundles : PushRevision(c, b))
    /\ (outcome.op = "push" /\ outcome.case = c) => state[c] = "Validating"

C7_Witness ==
  \E c \in Cases :
    /\ outcome.op = "push"
    /\ outcome.case = c
    /\ Len(history[c]) >= 2
    /\ history[c][Len(history[c]) - 1].from = "ReadyForReview"
    /\ history[c][Len(history[c]) - 1].to = "NeedsWork"

\* C8: every record of the permanent store belongs to a case whose history
\* has the transition ReadyForReview -> Approved; a rejected case has no
\* record of its own in the store, and once Closed it has been notified.
C8_OnlyApprovedStored ==
  /\ \A i \in DOMAIN store :
       HasEntry(store[i].case, "ReadyForReview", "Approved")
  /\ \A c \in Cases :
       HasEntry(c, "ReadyForReview", "Rejected")
         => \A i \in DOMAIN store : store[i].case # c
  /\ \A c \in Cases : state[c] = "Closed" => notified[c]

C8_Witness ==
  \E c \in Cases : state[c] = "Closed" /\ notified[c] /\ store # <<>>

\* C9: a case in Synced has a confirmed sync, a SyncRecord and exactly one
\* record of its hash in the permanent store, and Approved -> Synced is
\* taken only when the sync of the case is confirmed.
C9_SyncedIsPersisted ==
  /\ [](\A c \in Cases :
          state[c] = "Synced"
            => /\ confirmed[c]
               /\ ContentHash(c) \in ledger
               /\ Copies(ContentHash(c)) = 1)
  /\ [][\A c \in Cases :
          (state[c] = "Approved" /\ state'[c] = "Synced")
            => confirmed[c] /\ ContentHash(c) \in ledger]_vars

C9_Witness == \E c \in Cases : state[c] = "Synced"

\* C10: a case in Synced or Closed has had its transit artifact discarded;
\* when the discard fails the case stays in Approved or Rejected with its
\* artifact, and the terminal transition can be tried again.
C10_AllOrNothing ==
  /\ \A c \in Cases : state[c] \in Terminal => ~artifact[c]
  /\ outcome.error = "DiscardFailed"
       => /\ state[outcome.case] = outcome.from
          /\ outcome.from \in {"Approved", "Rejected"}
          /\ artifact[outcome.case]
          /\ ENABLED (\/ MarkSynced(outcome.case, TRUE)
                      \/ Close(outcome.case, TRUE))

C10_Witness ==
  /\ outcome.error = "DiscardFailed"
  /\ outcome.op = "mark_synced"

\* The held-back request is written in this step.
Written == attempt # NoAttempt /\ attempt' = NoAttempt

\* Since the held-back request read the state of its case, another request
\* that found the case in that same state has been written.
Overtaken ==
  attempt # NoAttempt /\ Len(history[attempt.case]) > attempt.step

CaseUntouched(c) ==
  /\ state'[c] = state[c]
  /\ history'[c] = history[c]
  /\ labels'[c] = labels[c]
  /\ bundle'[c] = bundle[c]
  /\ verdict'[c] = verdict[c]
  /\ artifact'[c] = artifact[c]

\* No validation is written, and no sync is in flight, for a case that is
\* in another phase: a verdict is written to a case in Validating only, and
\* a sync invocation belongs to a case that is Approved or already Synced.
PhasesApart ==
  /\ [](\A r \in Runs :
          ~FreeRun(r) => state[run[r].case] \in {"Approved", "Synced"})
  /\ [][\A c \in Cases :
          verdict'[c] # verdict[c]
            => /\ state[c] = "Validating"
               /\ \A r \in Runs : run[r].case # c]_vars

Visited(c, s) ==
  \/ s = "Created"
  \/ \E i \in DOMAIN history[c] : history[c][i].to = s

Entries(c, s) ==
  Cardinality({i \in DOMAIN history[c] : history[c][i].to = s})

\* C12 as stated: once a case has been in ReadyForReview it never again is
\* in Created, Validating or NeedsWork, once it has been in Approved or
\* Rejected it never again is in ReadyForReview, and no state other than
\* Validating and NeedsWork is entered twice.
C12_OnlyRevisionCycle ==
  \A c \in Cases :
    /\ Visited(c, "ReadyForReview")
         => state[c] \notin {"Created", "Validating", "NeedsWork"}
    /\ (Visited(c, "Approved") \/ Visited(c, "Rejected"))
         => state[c] # "ReadyForReview"
    /\ \A s \in States \ {"Validating", "NeedsWork"} : Entries(c, s) <= 1
    /\ Entries(c, "Created") = 0

\* C12 amended: the revision loop is the only cycle: a case re-enters
\* Validating from NeedsWork only, and it is in NeedsWork after a failed
\* validation or after a request for changes on a case in ReadyForReview;
\* once a case has been in Approved or Rejected it never again is in
\* Created, Validating, NeedsWork or ReadyForReview; no state other than
\* Validating, NeedsWork and ReadyForReview is entered twice.
C12_OnlyRevisionCycles ==
  \A c \in Cases :
    /\ (Visited(c, "Approved") \/ Visited(c, "Rejected"))
         => state[c] \notin {"Created", "Validating", "NeedsWork",
                             "ReadyForReview"}
    /\ \A s \in States \ {"Validating", "NeedsWork", "ReadyForReview"} :
         Entries(c, s) <= 1
    /\ Entries(c, "Created") = 0
    /\ \A i \in DOMAIN history[c] :
         /\ (history[c][i].to = "Validating" /\ i > 1)
              => history[c][i].from = "NeedsWork"
         /\ history[c][i].to = "NeedsWork"
              => history[c][i].from \in {"Validating", "ReadyForReview"}
         /\ history[c][i].to = "ReadyForReview"
              => history[c][i].from = "Validating"

\* A case came back to ReadyForReview after a request for changes and was
\* then approved.
C12_Witness ==
  \E c \in Cases :
    /\ Entries(c, "ReadyForReview") = 2
    /\ HasEntry(c, "ReadyForReview", "NeedsWork")
    /\ state[c] = "Approved"

CaseKept(c) ==
  /\ state'[c] = state[c]
  /\ history'[c] = history[c]
  /\ bundle'[c] = bundle[c]
  /\ verdict'[c] = verdict[c]

Verified == report # NoReport

Duplicated(ids) == \E i, j \in DOMAIN ids : i # j /\ ids[i] = ids[j]

C17_ReportedCountChecked ==
  Verified =>
    LET present == {probe.ids[i] : i \in DOMAIN probe.ids}
    IN  /\ probe.n_samples # Cardinality(present) => report # {}
        /\ (probe.n_samples = CanonSize - 1 /\ probe.ids = LimitedRun)
             => "incomplete benchmark coverage" \in report

\* A verdict is false iff one of its named checks failed, and a failed check
\* has its reasons.
Consistent(v) ==
  v.overall <=> \A k \in DOMAIN v.checks : v.checks[k] = {}

\* The verdict holds everything the three validators find in bundle b.
Collected(v, b) ==
  /\ v.checks.schema = SchemaValidator(b)
  /\ v.checks.trajectory = TrajectoryValidator(b)
  /\ v.checks.samples = SampleCountVerifier(b)

\* The latest transition of case c was from `from`.
CameFrom(c, from) ==
  history[c] # <<>> /\ history[c][Len(history[c])].from = from

VerdictsSound ==
  \A c \in Cases : \A v \in verdict[c] :
    /\ Consistent(v)
    /\ state[c] # "Validating" => Collected(v, BundleTable[bundle[c]])
    /\ (BundleTable[bundle[c]].errors /\ state[c] # "Validating")
         => ~v.overall

\* C18 as stated: a case in NeedsWork has a latest verdict that is false
\* and carries a failed check with a reason; a verdict is false iff one of
\* its checks failed, with all failures collected.
C18_NeedsWorkHasReasons ==
  /\ \A c \in Cases :
       state[c] = "NeedsWork"
         => /\ verdict[c] # {}
            /\ \A v \in verdict[c] :
                 ~v.overall /\ \E k \in DOMAIN v.checks : v.checks[k] # {}
  /\ VerdictsSound

\* C18 amended: a case that validation sent to NeedsWork has a latest
\* verdict that is false and carries a failed check with a reason (a case
\* the reviewer sent there with a request for changes has a passing
\* verdict); a verdict is false iff one of its checks failed, with all
\* failures collected.
C18_FailedVerdictHasReasons ==
  /\ \A c \in Cases :
       state[c] = "NeedsWork"
         => /\ verdict[c] # {}
            /\ CameFrom(c, "Validating") \/ CameFrom(c, "ReadyForReview")
            /\ \A v \in verdict[c] :
                 IF CameFrom(c, "Validating")
                 THEN ~v.overall /\ \E k \in DOMAIN v.checks : v.checks[k] # {}
                 ELSE v.overall
  /\ VerdictsSound

\* A bundle that fails all three validators was sent back: the verdict names
\* a failure of each.
C18_Witness ==
  \E c \in Cases :
    /\ state[c] = "NeedsWork"
    /\ CameFrom(c, "Validating")
    /\ \E v \in verdict[c] : \A k \in DOMAIN v.checks : v.checks[k] # {}

\* The label that stands for a state.
Projection ==
  [ReadyForReview |-> "ready-for-review", NeedsWork |-> "needs-work",
   Synced |-> "synced-to-hf", Closed |-> "rejected"]

Exhausted(c) == ~confirmed[c] /\ ~CanRetry(failures[c])

OwnRecords(c) == {i \in DOMAIN store : store[i].case = c}

C24_ResubmissionIsNew ==
  /\ [](\A c, d \in Cases :
          (/\ state[c] = "Synced" /\ state[d] = "Synced"
           /\ BundleTable[bundle[c]].scores # BundleTable[bundle[d]].scores
           /\ SubmittedAt(c) # SubmittedAt(d))
            => /\ ContentHash(c) # ContentHash(d)
               /\ Copies(ContentHash(c)) = 1
               /\ Copies(ContentHash(d)) = 1
               /\ OwnRecords(c) # {} /\ OwnRecords(d) # {})
  /\ [][/\ Len(store') >= Len(store)
         /\ SubSeq(store', 1, Len(store)) = store]_vars

C24_Witness ==
  /\ state[1] = "Synced" /\ bundle[1] = "good"
  /\ state[2] = "Synced" /\ bundle[2] = "rescored"
  /\ Len(store) = 2

\* The sync of the case cannot go on: its attempts are used up or its hash
\* is escalated.
SyncStuck(c) == Exhausted(c) \/ OnHold(ContentHash(c))

\* C23: a case in Created with a passing bundle reaches ReadyForReview, and
\* an approved case reaches Synced, with one record of its hash in the store
\* and its artifact discarded, unless its sync uses up its attempts or is
\* escalated.
C23_HappyPath ==
  \A c \in Followed :
    /\ (state[c] = "Created" /\ PassesAllChecks(BundleTable[bundle[c]]))
         ~> state[c] = "ReadyForReview"
    /\ state[c] = "Approved"
         ~> \/ /\ state[c] = "Synced"
               /\ Copies(ContentHash(c)) = 1
               /\ ~artifact[c]
            \/ SyncStuck(c)

C23_Witness ==
  \E c \in Followed :
    /\ state[c] = "Synced"
    /\ Len(history[c]) = 4
    /\ Copies(ContentHash(c)) = 1
    /\ ~artifact[c]
    /\ failures[c] = 0

\* The lines of the text that parseCSV reads.
LinesOf(text) == SplitLines(Trim(text))

\* The commas of a line that have an even number of quotes before them.
UnquotedCommas(line) ==
  {j \in DOMAIN line :
     /\ line[j] = ","
     /\ Cardinality({k \in 1..(j - 1) : line[k] = "\""}) % 2 = 0}

\* The characters of the line between two places, quotes left out.
Between(line, from, to) ==
  SelectSeq(SubSeq(line, from + 1, to - 1), LAMBDA ch : ch # "\"")

\* The k-th unquoted comma of the line, 0 before the line and Len + 1 after.
Cut(line, k) ==
  IF k = 0 THEN 0
  ELSE IF k > Cardinality(UnquotedCommas(line)) THEN Len(line) + 1
  ELSE CHOOSE j \in UnquotedCommas(line) :
         Cardinality({i \in UnquotedCommas(line) : i < j}) = k - 1

\* The first field starts, after white space and a sign, with a digit.
IntegerLike(field) ==
  LET t == TrimStart(field)
      u == IF t # <<>> /\ t[1] \in {"-", "+"} THEN Tail(t) ELSE t
  IN  u # <<>> /\ u[1] \in Range(Digits)

\* The lines after the first one that give an entry.
RankedLines(text) ==
  {i \in 2..Len(LinesOf(text)) :
     IntegerLike(Between(LinesOf(text)[i], 0, Cut(LinesOf(text)[i], 1)))}

\* C29: the first line is skipped; a line has one field more than it has
\* commas outside quotes, the k-th field being the characters between the
\* unquoted commas k-1 and k without the quotes, trimmed; a line gives an
\* entry iff its first field parses as an integer; the entries are at most
\* the lines less one and come in the order of their lines.
C29_Scanner ==
  report.done =>
    LET lines == LinesOf(probe)
        ranked == RankedLines(probe)
    IN  /\ \A i \in DOMAIN lines :
             LET vs == Values(lines[i])
             IN  /\ Len(vs) = Cardinality(UnquotedCommas(lines[i])) + 1
                 /\ \A k \in DOMAIN vs :
                      /\ "\"" \notin Range(vs[k])
                      /\ vs[k] = Trim(Between(lines[i], Cut(lines[i], k - 1),
                                              Cut(lines[i], k)))
        /\ Len(report.entries) = Cardinality(ranked)
        /\ Len(report.entries) <= Len(lines) - 1
        /\ \A k \in DOMAIN report.entries :
             LET i == CHOOSE i \in ranked :
                        Cardinality({j \in ranked : j < i}) = k - 1
             IN  report.entries[k] = Entry(Values(lines[i]))

C29_Witness ==
  /\ report.done
  /\ Len(report.entries) = 1
  /\ \E l \in Range(LinesOf(probe)) :
       \E i \in DOMAIN l : l[i] = "," /\ i \notin UnquotedCommas(l)
  /\ Head(probe) = "1"

\* The values a score or the mean of an entry can have.
FieldValues == {Null, NaN, Num(0), Num(7000)}

\* C25: an entry has no index iff fewer than three of its four benchmark
\* scores are there, whatever its TeleYAML score and its mean are; the
\* Models page keeps every entry of the file, the dashboard chart holds the
\* entries that have an index, in their order.
C25_IndexNeedsThree ==
  report.done =>
    LET indexed == SelectSeq(report.models, LAMBDA e : e.tci # Null)
    IN  /\ \A i \in DOMAIN report.models :
             LET e == report.models[i]
             IN  /\ e.tci = Null
                      <=> Cardinality({k \in IndexKeys : e[k] # Null}) < 3
                 /\ \A y, m \in FieldValues :
                      CalculateTCI([e EXCEPT !.teleyaml = y, !.mean = m])
                        = e.tci
        /\ Len(report.models) = Cardinality(RankedLines(probe))
        /\ Len(report.chart) = Len(indexed)
        /\ \A k \in DOMAIN report.chart :
             /\ report.chart[k].rank = indexed[k].rank
             /\ report.chart[k].model = indexed[k].model
             /\ report.chart[k].tci = indexed[k].tci

\* The first row has TeleYAML and the mean but only two of the four scores.
C25_Witness ==
  /\ report.done
  /\ Len(report.models) = 2
  /\ Len(report.chart) = 1
  /\ report.models[1].tci = Null
  /\ report.models[1].teleyaml # Null
  /\ report.models[1].mean.kind = "number"
  /\ Cardinality({k \in IndexKeys : report.models[1][k] # Null}) = 2

\* The load of a component has ended.
Settled(comp) == page[comp].phase = "settled"

\* C26: a component starts with loading true, no data and no error; it
\* issues the fetch once; once loading is false it stays false; and it never
\* has an error together with data.
C26_OneShotLoad ==
  /\ \A comp \in Components :
       page[comp].loading /\ page[comp].data = <<>>
         /\ page[comp].error = NoError /\ page[comp].fetches = 0
  /\ [](\A comp \in Components :
          /\ page[comp].fetches <= 1
          /\ ~(page[comp].error # NoError /\ page[comp].data # <<>>)
          /\ ~page[comp].loading <=> Settled(comp))
  /\ [][\A comp \in Components :
          /\ ~page[comp].loading => ~page'[comp].loading
          /\ page'[comp].fetches > page[comp].fetches
               => page[comp].loading /\ page[comp].fetches = 0]_vars

C26_Witness ==
  /\ Settled("ModelsPage") /\ page["ModelsPage"].data # <<>>
  /\ Settled("TelcoCapabilityIndex")
  /\ page["TelcoCapabilityIndex"].error # NoError
  /\ ui.sortBy = "name"

\* C27: when the fetch is rejected or its response is not ok, the component
\* has no data at any time and ends with loading false and the message of
\* the failure as its error, showing the error; the body of a response that
\* is not ok is never parsed.
C27_FailureShowsError ==
  \A comp \in Components :
    /\ page[comp].response \in {"rejected", "notok"}
         => /\ page[comp].data = <<>>
            /\ ~page[comp].parsed
            /\ Settled(comp)
                 => /\ ~page[comp].loading
                    /\ page[comp].error =
                         (IF page[comp].response = "notok"
                          THEN FailedToLoad(comp) ELSE NetworkError)
                    /\ View(page[comp]) = "error"
    /\ page[comp].parsed => page[comp].response = "ok"

C27_Witness ==
  /\ Settled("ModelsPage") /\ page["ModelsPage"].response = "notok"
  /\ Settled("TelcoCapabilityIndex")
  /\ page["TelcoCapabilityIndex"].response = "rejected"
  /\ csv # Header

\* The sort key of an entry is missing: it is null or not a number.
Missing(key) == key.kind # "number"

SortKey(e) == IF ui.sortBy = "tci" THEN e.tci ELSE e.mean

\* C28: on the Models page sorted by tci or by mean, no entry whose key is
\* missing stands before an entry that has one, and the keys of the entries
\* that have one do not go up.
C28_MissingKeysLast ==
  (View(page["ModelsPage"]) = "content" /\ ui.sortBy \in {"tci", "mean"})
    => \A i, j \in DOMAIN ui.shown :
         i < j
           => /\ Missing(SortKey(ui.shown[i])) => Missing(SortKey(ui.shown[j]))
              /\ (~Missing(SortKey(ui.shown[i])) /\ ~Missing(SortKey(ui.shown[j])))
                   => SortKey(ui.shown[i]).val >= SortKey(ui.shown[j]).val

\* How often the entry is in the list.
Count(list, e) == Cardinality({i \in DOMAIN list : list[i] = e})

\* The entries the search finds.
Found(data, searchQuery) ==
  SelectSeq(data, LAMBDA d :
    \/ Includes(ToLowerCase(d.model), ToLowerCase(searchQuery))
    \/ Includes(ToLowerCase(d.provider), ToLowerCase(searchQuery)))

\* C30: a click on a provider changes the selection by that provider alone
\* and a second click on it gives the selection back; the list shown holds
\* entries of the loaded data, none more often than the data does; the
\* controls leave the loaded data as it is; and with no provider selected
\* the list holds every entry the search finds.
C30_FilterKeepsData ==
  /\ [][ui'.selectedProviders # ui.selectedProviders
          => \E p \in Providers(page["ModelsPage"].data) :
               /\ ui'.selectedProviders = ToggleProvider(ui.selectedProviders, p)
               /\ ToggleProvider(ui'.selectedProviders, p) = ui.selectedProviders
               /\ \A q \in Providers(page["ModelsPage"].data) \ {p} :
                    q \in ui'.selectedProviders <=> q \in ui.selectedProviders
               /\ p \in ui'.selectedProviders <=> p \notin ui.selectedProviders]_vars
  /\ [](\A e \in Range(ui.shown) :
          Count(ui.shown, e) <= Count(page["ModelsPage"].data, e))
  /\ [][(ui'.searchQuery # ui.searchQuery \/ ui'.sortBy # ui.sortBy
           \/ ui'.selectedProviders # ui.selectedProviders)
          => page' = page]_vars
  /\ [](ui.selectedProviders = {}
          => \A e \in Range(page["ModelsPage"].data) :
               Count(ui.shown, e)
                 = Count(Found(page["ModelsPage"].data, ui.searchQuery), e))

C30_Witness ==
  /\ ui.selectedProviders = {<<"B">>}
  /\ Len(ui.shown) = 1
  /\ Len(page["ModelsPage"].data) = 3
  /\ ui.sortBy = "tci"

====
